---- MODULE Spec2Model ----
(***************************************************************************)
(* downloader.js: one Downloader session (controller, isPaused, blobUrl),  *)
(* the transfers started on it with download(), the fetch()/ReadableStream *)
(* environment each transfer awaits, and the object-URL registry.          *)
(*                                                                         *)
(* A step of the model is one run-to-completion piece of JavaScript: a     *)
(* call made by the page (download, stop, cleanup), or the continuation of *)
(* an `await` inside download() (the fetch settling, one reader.read()     *)
(* settling), with every callback it invokes.  Network events (a chunk, the *)
(* end of the body, a failure) are steps of the environment.               *)
(***************************************************************************)
EXTENDS Integers, Sequences, FiniteSets

\* ---- bounds ------------------------------------------------------------
MaxTransfers == 2      \* download() calls made on the session
MaxChunks == 2         \* chunks the network delivers for one body
MaxChunkLen == 2       \* bytes in one chunk
MaxLen == 4            \* largest advertised Content-Length
LongLen == 8           \* an advertised Content-Length no body of the model reaches
CoarseLen == 2         \* the advertised Content-Length in runs with several transfers

Null == 0              \* JavaScript null, for controller / blobUrl / a result
Absent == -1           \* response.headers.get() of a header that is not there

Transfers == 1..MaxTransfers
Callbacks == {"started", "progress", "success", "failed"}
\* what a callback supplied by the page does when it is invoked
Behaviours == {"noop", "stop", "cleanup", "throw", "stopthrow"}
Statuses == {200, 404}
ContentTypes == {"none", "text/plain"}
LengthHeaders == {Absent, LongLen} \cup (0..MaxLen)

VARIABLES
    controller,   \* this.controller: Null or the token of the transfer that set it
    isPaused,     \* this.isPaused
    blobUrl,      \* this.blobUrl: Null or a handle
    aborted,      \* aborted[k]: signal.aborted of the AbortController of transfer k
    live,         \* object URLs created and not yet revoked
    blobs,        \* blobs[h]: the Blob behind handle h
    peakLive,     \* history: most object URLs ever live at once
    tr,           \* tr[t]: the activation of download() number t
    lastCall,     \* history: "stop"/"cleanup" when that call returned in the last step
    heldBefore    \* history: this.blobUrl when that call was entered

vars == <<controller, isPaused, blobUrl, aborted, live, blobs, peakLive, tr,
          lastCall, heldBefore>>

\* ---- the state as one value, so that a handler's statements compose -----
Cur ==
    [controller |-> controller, blobUrl |-> blobUrl, aborted |-> aborted,
     live |-> live, blobs |-> blobs, peakLive |-> peakLive, tr |-> tr,
     lastCall |-> "none", heldBefore |-> Null]

Becomes(s) ==
    /\ controller' = s.controller
    /\ blobUrl' = s.blobUrl
    /\ aborted' = s.aborted
    /\ live' = s.live
    /\ blobs' = s.blobs
    /\ peakLive' = s.peakLive
    /\ tr' = s.tr
    /\ lastCall' = s.lastCall
    /\ heldBefore' = s.heldBefore
    /\ UNCHANGED isPaused

Ev(cb, n, kind, msg) == [cb |-> cb, n |-> n, kind |-> kind, msg |-> msg]

NewTransfer ==
    [pc |-> "new",             \* new, fetch, read, resolved, rejected
     opts |-> {},              \* the callbacks present in options
     lengthHeader |-> Absent,  \* response.headers.get('Content-Length')
     contentLength |-> 0,
     contentType |-> "none",
     queue |-> <<>>,           \* chunks enqueued in response.body and not yet read
     closeReq |-> FALSE,       \* the body has ended
     errored |-> "",           \* name of the error the body stream was errored with
     wire |-> <<>>,            \* history: lengths of the chunks the network delivered
     sent |-> 0,               \* bytes the network has delivered
     receivedLength |-> 0,
     chunks |-> <<>>,
     created |-> Null,         \* history: the handle this attempt created
     released |-> Null,        \* history: the handle this attempt revoked before that
     result |-> Null,          \* value the promise resolved with
     error |-> "",             \* name of the error the promise rejected with
     cause |-> "",             \* history: why the attempt failed
     log |-> <<>>,             \* history: callbacks invoked, in order
     conv |-> FALSE,           \* started by String.prototype.download
     handled |-> "",           \* "swallowed" once its .catch handler has returned
     stopAt |-> -1,            \* history: Len(log) at the first stop() in flight
     stopOwn |-> FALSE]        \* history: such a stop() cancelled this attempt's
                               \* pending request or readable body

\* ---- environment: AbortController, ReadableStream, URL ------------------
\* the body stream can still deliver or fail: not errored and not closed
Readable(x) == x.errored = "" /\ ~(x.closeReq /\ x.queue = <<>>)

\* the whole body has arrived and has been handed to the reader
StreamCompleted(x) == x.pc = "read" /\ x.errored = "" /\ x.closeReq /\ x.queue = <<>>

InFlight(x) == x.pc \in {"fetch", "read"}

\* Abort with the signal set but the body stream left alone
AbortFlagOnly(s, k) == [s EXCEPT !.aborted[k] = TRUE]

\* Abort that reaches the token of every transfer of the session
AbortEvery(s, k) ==
    [s EXCEPT !.aborted = [t \in Transfers |-> TRUE],
              !.tr = [t \in Transfers |->
                         IF s.tr[t].pc = "read" /\ Readable(s.tr[t])
                         THEN [s.tr[t] EXCEPT !.errored = "AbortError", !.queue = <<>>]
                         ELSE s.tr[t]]]

\* controller.abort() on the token of transfer k: the signal is set; a body that
\* is still readable is errored with the AbortError and loses what it had queued
Abort(s, k) ==
    [s EXCEPT !.aborted[k] = TRUE,
              !.tr[k] = IF @.pc = "read" /\ Readable(@)
                        THEN [@ EXCEPT !.errored = "AbortError", !.queue = <<>>]
                        ELSE @]

\* URL.revokeObjectURL(h)
Revoke(s, h) == [s EXCEPT !.live = @ \ {h}]

\* URL.createObjectURL(new Blob([bytes], {type})): a fresh handle
CreateObjectURL(s, bytes, type) ==
    LET h == Len(s.blobs) + 1
    IN [s EXCEPT !.blobs = Append(@, [bytes |-> bytes, type |-> type]),
                 !.live = @ \cup {h},
                 !.peakLive = IF Cardinality(s.live \cup {h}) > @
                              THEN Cardinality(s.live \cup {h}) ELSE @]

\* ---- Downloader.stop / Downloader.cleanup -------------------------------
\* history only: which attempts were in flight, their stream not yet completed,
\* when stop() was entered
ObserveStop(s) ==
    [s EXCEPT !.tr = [t \in Transfers |->
        IF InFlight(s.tr[t]) /\ ~StreamCompleted(s.tr[t])
        THEN [s.tr[t] EXCEPT
                 !.stopAt = IF @ = -1 THEN Len(s.tr[t].log) ELSE @,
                 !.stopOwn = @ \/ (s.controller = t /\
                                    (s.tr[t].pc = "fetch" \/ Readable(s.tr[t])))]
        ELSE s.tr[t]],
              !.heldBefore = s.blobUrl]

\* stop that revokes the object URL but keeps this.blobUrl
stopKeepsUrl(s) ==
    LET s1 == IF s.controller # Null
              THEN [Abort(s, s.controller) EXCEPT !.controller = Null]
              ELSE s
    IN IF s1.blobUrl # Null THEN Revoke(s1, s1.blobUrl) ELSE s1

stop(s) ==
    LET s1 == IF s.controller # Null
              THEN [Abort(s, s.controller) EXCEPT !.controller = Null]
              ELSE s
        s2 == IF s1.blobUrl # Null
              THEN [Revoke(s1, s1.blobUrl) EXCEPT !.blobUrl = Null]
              ELSE s1
    IN s2

cleanup(s) ==
    LET s1 == stop(s)
    IN IF s1.blobUrl # Null
       THEN [Revoke(s1, s1.blobUrl) EXCEPT !.blobUrl = Null]
       ELSE s1

CallStop(s) == [stop(ObserveStop(s)) EXCEPT !.lastCall = "stop"]
CallCleanup(s) == [cleanup(ObserveStop(s)) EXCEPT !.lastCall = "cleanup"]

\* ---- callbacks ----------------------------------------------------------
Throws(b) == b \in {"throw", "stopthrow"}

\* what the body of a callback does to the session it is bound to
RunBody(s, b) ==
    CASE b \in {"stop", "stopthrow"} -> CallStop(s)
      [] b = "cleanup" -> CallCleanup(s)
      [] OTHER -> s

\* options.<cb>.call(this, ...) of transfer t, when options has it
Invoke(s, t, e, b) ==
    IF e.cb \in s.tr[t].opts
    THEN RunBody([s EXCEPT !.tr[t].log = Append(@, e)], b)
    ELSE s

Thrown(s, t, cb, b) == cb \in s.tr[t].opts /\ Throws(b)

\* ---- Downloader.download ------------------------------------------------
\* FailKind that does not look at the error's name
FailKindError(name) == "ERROR"

\* the kind the catch block reports for an error of that name
FailKind(name) == IF name = "AbortError" THEN "ABORTED" ELSE "ERROR"

FailMessage(name, msg) == IF name = "AbortError" THEN "Download was stopped" ELSE msg

\* Catch that takes a supplied failed callback for the whole report: no rethrow
CatchSwallows(s, t, name, n, msg, cause, bf) ==
    LET s1 == [s EXCEPT !.tr[t].pc = IF "failed" \in s.tr[t].opts
                                      THEN "resolved" ELSE "rejected",
                        !.tr[t].error = name,
                        !.tr[t].cause = cause]
    IN Invoke(s1, t, Ev("failed", n, FailKind(name), FailMessage(name, msg)), bf)

\* catch (error) { failed(kind, message); throw error }
Catch(s, t, name, n, msg, cause, bf) ==
    LET s1 == [s EXCEPT !.tr[t].pc = "rejected",
                        !.tr[t].error = name,
                        !.tr[t].cause = cause]
        s2 == Invoke(s1, t, Ev("failed", n, FailKind(name), FailMessage(name, msg)), bf)
    IN IF Thrown(s1, t, "failed", bf)
       THEN [s2 EXCEPT !.tr[t].error = "Error"]
       ELSE s2

\* Percent with Math.floor in place of Math.round
PercentFloor(received, total) == (100 * received) \div total

\* Math.round(receivedLength / contentLength * 100), for contentLength > 0
Percent(received, total) == (200 * received + total) \div (2 * total)

\* ToNumber that takes a missing header for a length of one byte
ToNumberOne(h) == IF h = Absent THEN 1 ELSE h

\* +response.headers.get('Content-Length')
ToNumber(h) == IF h = Absent THEN 0 ELSE h

\* allChunks.set(chunk, position)
SetAt(arr, chunk, position) ==
    [i \in 1..Len(arr) |->
        IF i > position /\ i <= position + Len(chunk) THEN chunk[i - position] ELSE arr[i]]

RECURSIVE CopyChunks(_, _, _)
CopyChunks(arr, chunks, position) ==
    IF chunks = <<>>
    THEN arr
    ELSE CopyChunks(SetAt(arr, Head(chunks), position), Tail(chunks),
                    position + Len(Head(chunks)))

\* Assemble with every chunk copied to position 0
AssembleInPlace(chunks, receivedLength) ==
    LET Put(arr, i) == SetAt(arr, chunks[i], 0)
        RECURSIVE Go(_, _)
        Go(arr, i) == IF i > Len(chunks) THEN arr ELSE Go(Put(arr, i), i + 1)
    IN Go([i \in 1..receivedLength |-> 0], 1)

\* new Uint8Array(receivedLength), filled chunk by chunk
Assemble(chunks, receivedLength) ==
    CopyChunks([i \in 1..receivedLength |-> 0], chunks, 0)

Init ==
    /\ controller = Null
    /\ isPaused = FALSE
    /\ blobUrl = Null
    /\ aborted = [k \in Transfers |-> FALSE]
    /\ live = {}
    /\ blobs = <<>>
    /\ peakLive = 0
    /\ tr = [t \in Transfers |-> NewTransfer]
    /\ lastCall = "none"
    /\ heldBefore = Null

\* Finish that creates the new object URL without revoking the one held
FinishNoRevoke(s, t, b) ==
    LET x == s.tr[t]
        s3 == CreateObjectURL([s EXCEPT !.tr[t].chunks = <<>>],
                              Assemble(x.chunks, x.receivedLength), x.contentType)
        h == Len(s3.blobs)
        s4 == [s3 EXCEPT !.blobUrl = h, !.tr[t].created = h,
                         !.tr[t].released = s.blobUrl]
        s5 == Invoke(s4, t, Ev("success", h, "", x.contentType), b)
    IN [s5 EXCEPT !.tr[t].pc = "resolved", !.tr[t].result = s5.blobUrl]

\* lines 89-114: the reader signalled done
Finish(s, t, b) ==
    LET x == s.tr[t]
        s1 == IF s.blobUrl # Null THEN Revoke(s, s.blobUrl) ELSE s
        allChunks == Assemble(x.chunks, x.receivedLength)
        s2 == [s1 EXCEPT !.tr[t].chunks = <<>>]
        s3 == CreateObjectURL(s2, allChunks, x.contentType)
        h == Len(s3.blobs)
        s4 == [s3 EXCEPT !.blobUrl = h, !.tr[t].created = h,
                         !.tr[t].released = s.blobUrl]
        s5 == Invoke(s4, t, Ev("success", h, "", x.contentType), b)
    IN [s5 EXCEPT !.tr[t].pc = "resolved", !.tr[t].result = s5.blobUrl]

\* lines 76-86: one chunk was read
TakeChunk(s, t, b) ==
    LET x == s.tr[t]
        value == Head(x.queue)
        received == x.receivedLength + Len(value)
        s1 == [s EXCEPT !.tr[t].queue = Tail(@),
                        !.tr[t].chunks = Append(@, value),
                        !.tr[t].receivedLength = received]
    IN IF x.contentLength # 0
       THEN Invoke(s1, t, Ev("progress", Percent(received, x.contentLength), "", ""), b)
       ELSE s1

\* a continuation of some download() is ready to run: the page's own calls and
\* other transfers' network events wait until it has run
Ready(x, k) ==
    \/ x.pc = "fetch" /\ aborted[k]
    \/ x.pc = "rejected" /\ x.conv /\ x.handled = ""
    \/ x.pc = "read" /\ (x.errored # "" \/ x.queue # <<>> \/ x.closeReq)

Quiescent == \A k \in Transfers : ~Ready(tr[k], k)

OthersQuiescent(t) == \A k \in Transfers \ {t} : ~Ready(tr[k], k)

\* The behaviour drawn for a callback that is not supplied, or that is not
\* reached, changes nothing: such draws are taken with "noop" only.
Drawn(b, reached) == b = "noop" \/ reached

\* ---- actions: calls made by the page -----------------------------------
\* download(url, options) up to `await fetch(...)`
Download(t, opts, b, bf) ==
    /\ Quiescent
    /\ tr[t].pc = "new"
    /\ \A k \in Transfers : k < t => tr[k].pc # "new"
    /\ Drawn(b, "started" \in opts)
    /\ Drawn(bf, "failed" \in opts /\ "started" \in opts /\ Throws(b))
    /\ LET s1 == [Cur EXCEPT !.controller = t,
                             !.aborted[t] = FALSE,
                             !.tr[t].pc = "fetch",
                             !.tr[t].opts = opts]
           s2 == Invoke(s1, t, Ev("started", 0, "", ""), b)
       IN Becomes(IF Thrown(s1, t, "started", b)
                  THEN Catch(s2, t, "Error", 0, "callback error", "callback", bf)
                  ELSE s2)

\* String.prototype.download: a new Downloader, download() on it up to its first
\* await, .catch(...) attached, the Downloader returned
StringDownload(opts, b, bf) ==
    /\ \A k \in Transfers : tr[k].pc = "new"
    /\ Drawn(b, "started" \in opts)
    /\ Drawn(bf, "failed" \in opts /\ "started" \in opts /\ Throws(b))
    /\ LET s1 == [Cur EXCEPT !.controller = 1,
                             !.aborted[1] = FALSE,
                             !.tr[1].pc = "fetch",
                             !.tr[1].opts = opts,
                             !.tr[1].conv = TRUE]
           s2 == Invoke(s1, 1, Ev("started", 0, "", ""), b)
       IN Becomes(IF Thrown(s1, 1, "started", b)
                  THEN Catch(s2, 1, "Error", 0, "callback error", "callback", bf)
                  ELSE s2)

\* a handler that logs the error and leaves the session as it is
SwallowOnly(s, t) == [s EXCEPT !.tr[t].handled = "swallowed"]

\* error => { console.debug(...); downloader.cleanup(); }
Swallow(s, t) == [CallCleanup(s) EXCEPT !.tr[t].handled = "swallowed"]

\* the .catch handler of String.prototype.download runs
CatchHandler(t) ==
    /\ tr[t].conv
    /\ tr[t].pc = "rejected"
    /\ tr[t].handled = ""
    /\ Becomes(Swallow(Cur, t))

Stop ==
    /\ Quiescent
    /\ Becomes(CallStop(Cur))

Cleanup ==
    /\ Quiescent
    /\ Becomes(CallCleanup(Cur))

\* ---- actions: fetch() settles ------------------------------------------
FetchAborted(t, bf) ==
    /\ tr[t].pc = "fetch"
    /\ aborted[t]
    /\ Drawn(bf, "failed" \in tr[t].opts)
    /\ Becomes(Catch(Cur, t, "AbortError", 0, "The user aborted a request.", "cancel", bf))

FetchFails(t, bf) ==
    /\ tr[t].pc = "fetch"
    /\ ~aborted[t]
    /\ Drawn(bf, "failed" \in tr[t].opts)
    /\ Becomes(Catch(Cur, t, "TypeError", 0, "Failed to fetch", "network", bf))

FetchResponds(t, status, lengthHeader, contentType, bf) ==
    /\ tr[t].pc = "fetch"
    /\ ~aborted[t]
    /\ Drawn(bf, "failed" \in tr[t].opts /\ status \notin 200..299)
    /\ IF status \in 200..299
       THEN Becomes([Cur EXCEPT !.tr[t].pc = "read",
                                !.tr[t].lengthHeader = lengthHeader,
                                !.tr[t].contentLength = ToNumber(lengthHeader),
                                !.tr[t].contentType = contentType])
       ELSE Becomes(Catch(Cur, t, "Error", status, "HTTP error! status: ", "status", bf))

\* ---- actions: the network feeds response.body --------------------------
NetChunk(t, n) ==
    /\ OthersQuiescent(t)
    /\ tr[t].pc = "read" /\ tr[t].errored = "" /\ ~tr[t].closeReq
    /\ Len(tr[t].wire) < MaxChunks
    /\ tr' = [tr EXCEPT ![t].queue = Append(@, [i \in 1..n |-> tr[t].sent + i]),
                        ![t].wire = Append(@, n),
                        ![t].sent = @ + n]
    /\ lastCall' = "none" /\ heldBefore' = Null
    /\ UNCHANGED <<controller, isPaused, blobUrl, aborted, live, blobs, peakLive>>

NetClose(t) ==
    /\ OthersQuiescent(t)
    /\ tr[t].pc = "read" /\ tr[t].errored = "" /\ ~tr[t].closeReq
    /\ tr' = [tr EXCEPT ![t].closeReq = TRUE]
    /\ lastCall' = "none" /\ heldBefore' = Null
    /\ UNCHANGED <<controller, isPaused, blobUrl, aborted, live, blobs, peakLive>>

NetError(t) ==
    /\ OthersQuiescent(t)
    /\ tr[t].pc = "read" /\ tr[t].errored = "" /\ ~tr[t].closeReq
    /\ tr' = [tr EXCEPT ![t].errored = "TypeError", ![t].queue = <<>>]
    /\ lastCall' = "none" /\ heldBefore' = Null
    /\ UNCHANGED <<controller, isPaused, blobUrl, aborted, live, blobs, peakLive>>

\* ---- actions: reader.read() settles ------------------------------------
ReadRejected(t, bf) ==
    /\ tr[t].pc = "read"
    /\ tr[t].errored # ""
    /\ Drawn(bf, "failed" \in tr[t].opts)
    /\ Becomes(Catch(Cur, t, tr[t].errored, 0, "network error",
                     IF tr[t].errored = "AbortError" THEN "cancel" ELSE "read", bf))

ReadChunk(t, b, bf) ==
    /\ tr[t].pc = "read"
    /\ tr[t].errored = ""
    /\ tr[t].queue # <<>>
    /\ Drawn(b, "progress" \in tr[t].opts /\ tr[t].contentLength # 0)
    /\ Drawn(bf, "failed" \in tr[t].opts /\ "progress" \in tr[t].opts
                    /\ tr[t].contentLength # 0 /\ Throws(b))
    /\ LET s1 == TakeChunk(Cur, t, b)
       IN Becomes(IF tr[t].contentLength # 0 /\ Thrown(Cur, t, "progress", b)
                  THEN Catch(s1, t, "Error", 0, "callback error", "callback", bf)
                  ELSE s1)

ReadDone(t, b, bf) ==
    /\ tr[t].pc = "read"
    /\ tr[t].errored = ""
    /\ tr[t].queue = <<>>
    /\ tr[t].closeReq
    /\ Drawn(b, "success" \in tr[t].opts)
    /\ Drawn(bf, "failed" \in tr[t].opts /\ "success" \in tr[t].opts /\ Throws(b))
    /\ LET s1 == Finish(Cur, t, b)
       IN Becomes(IF Thrown(Cur, t, "success", b)
                  THEN Catch(s1, t, "Error", 0, "callback error", "callback", bf)
                  ELSE s1)

\* ---- what the page and the server may do -------------------------------
\* Spec: up to MaxTransfers download() calls on the session, which may overlap;
\* every body comes in one-byte chunks and the server either advertises CoarseLen
\* bytes or no length.
OptionSets == {Callbacks, Callbacks \ {"failed"}}
CoarseHeaders == {Absent, CoarseLen}
CoarseTypes == {"text/plain"}

Next ==
    \/ \E t \in Transfers, opts \in OptionSets, b, bf \in Behaviours :
          Download(t, opts, b, bf)
    \/ Stop
    \/ Cleanup
    \/ \E t \in Transfers, bf \in Behaviours : FetchAborted(t, bf)
    \/ \E t \in Transfers, bf \in Behaviours : FetchFails(t, bf)
    \/ \E t \in Transfers, status \in Statuses, lengthHeader \in CoarseHeaders,
          contentType \in CoarseTypes, bf \in Behaviours :
          FetchResponds(t, status, lengthHeader, contentType, bf)
    \/ \E t \in Transfers : NetChunk(t, 1)
    \/ \E t \in Transfers : NetClose(t)
    \/ \E t \in Transfers : NetError(t)
    \/ \E t \in Transfers, bf \in Behaviours : ReadRejected(t, bf)
    \/ \E t \in Transfers, b, bf \in Behaviours : ReadChunk(t, b, bf)
    \/ \E t \in Transfers, b, bf \in Behaviours : ReadDone(t, b, bf)

Spec == Init /\ [][Next]_vars

\* SpecOne: one download() on the session, with every combination of callbacks,
\* every advertised length and every way of cutting the body into chunks.
NextOne ==
    \/ \E opts \in SUBSET Callbacks, b, bf \in Behaviours : Download(1, opts, b, bf)
    \/ Stop
    \/ Cleanup
    \/ \E bf \in Behaviours : FetchAborted(1, bf)
    \/ \E bf \in Behaviours : FetchFails(1, bf)
    \/ \E status \in Statuses, lengthHeader \in LengthHeaders,
          contentType \in ContentTypes, bf \in Behaviours :
          FetchResponds(1, status, lengthHeader, contentType, bf)
    \/ \E n \in 1..MaxChunkLen : NetChunk(1, n)
    \/ NetClose(1)
    \/ NetError(1)
    \/ \E bf \in Behaviours : ReadRejected(1, bf)
    \/ \E b, bf \in Behaviours : ReadChunk(1, b, bf)
    \/ \E b, bf \in Behaviours : ReadDone(1, b, bf)

SpecOne == Init /\ [][NextOne]_vars

\* SpecString: the session is made by String.prototype.download; the page may go
\* on to call download(), stop() and cleanup() on the Downloader it got back.
NextString ==
    \/ \E opts \in OptionSets, b, bf \in Behaviours : StringDownload(opts, b, bf)
    \/ \E t \in Transfers : CatchHandler(t)
    \/ \E t \in Transfers \ {1}, opts \in OptionSets, b, bf \in Behaviours :
          Download(t, opts, b, bf)
    \/ tr[1].pc # "new" /\ Stop
    \/ tr[1].pc # "new" /\ Cleanup
    \/ \E t \in Transfers, bf \in Behaviours : FetchAborted(t, bf)
    \/ \E t \in Transfers, bf \in Behaviours : FetchFails(t, bf)
    \/ \E t \in Transfers, status \in Statuses, lengthHeader \in CoarseHeaders,
          contentType \in CoarseTypes, bf \in Behaviours :
          FetchResponds(t, status, lengthHeader, contentType, bf)
    \/ \E t \in Transfers : NetChunk(t, 1)
    \/ \E t \in Transfers : NetClose(t)
    \/ \E t \in Transfers : NetError(t)
    \/ \E t \in Transfers, bf \in Behaviours : ReadRejected(t, bf)
    \/ \E t \in Transfers, b, bf \in Behaviours : ReadChunk(t, b, bf)
    \/ \E t \in Transfers, b, bf \in Behaviours : ReadDone(t, b, bf)

SpecString == Init /\ [][NextString]_vars

\* SpecFair: the event loop keeps running, so the continuation of download()
\* that a cancellation has made ready (the fetch or the read rejected with the
\* AbortError) is run; the network owes nothing (a transfer may stall). Every
\* transfer has all four callbacks and a Content-Length header.
NextFair ==
    \/ \E t \in Transfers, b, bf \in Behaviours : Download(t, Callbacks, b, bf)
    \/ Stop
    \/ Cleanup
    \/ \E t \in Transfers, bf \in Behaviours : FetchAborted(t, bf)
    \/ \E t \in Transfers, bf \in Behaviours : FetchFails(t, bf)
    \/ \E t \in Transfers, status \in Statuses, bf \in Behaviours :
          FetchResponds(t, status, CoarseLen, "text/plain", bf)
    \/ \E t \in Transfers : NetChunk(t, 1)
    \/ \E t \in Transfers : NetClose(t)
    \/ \E t \in Transfers : NetError(t)
    \/ \E t \in Transfers, bf \in Behaviours : ReadRejected(t, bf)
    \/ \E t \in Transfers, b, bf \in Behaviours : ReadChunk(t, b, bf)
    \/ \E t \in Transfers, b, bf \in Behaviours : ReadDone(t, b, bf)

Fairness ==
    \A t \in Transfers :
        /\ WF_vars(\E bf \in Behaviours : FetchAborted(t, bf))
        /\ WF_vars(\E bf \in Behaviours : ReadRejected(t, bf))

SpecFair == Init /\ [][NextFair]_vars /\ Fairness

\* ---- properties ---------------------------------------------------------
Settled(x) == x.pc \in {"resolved", "rejected"}

Calls(log, cb) == {i \in DOMAIN log : log[i].cb = cb}

\* the values the progress callback was given, in the order of the calls
RECURSIVE ProgressValues(_)
ProgressValues(log) ==
    IF log = <<>>
    THEN <<>>
    ELSE IF Head(log).cb = "progress"
         THEN <<Head(log).n>> \o ProgressValues(Tail(log))
         ELSE ProgressValues(Tail(log))

\* bytes in the first i chunks the network delivered
RECURSIVE SumTo(_, _)
SumTo(lens, i) == IF i = 0 THEN 0 ELSE SumTo(lens, i - 1) + lens[i]

\* p is received / total * 100 rounded to the nearest integer, halves up
IsRound(p, received, total) ==
    /\ (2 * p - 1) * total <= 200 * received
    /\ 200 * received < (2 * p + 1) * total

AbortedOnce(x) ==
    /\ \A i \in DOMAIN x.log : x.log[i].cb # "success"
    /\ \A i \in DOMAIN x.log : i > x.stopAt => x.log[i].cb # "progress"
    /\ Settled(x) =>
          /\ Cardinality(Calls(x.log, "failed")) = 1
          /\ \A i \in Calls(x.log, "failed") : x.log[i].kind = "ABORTED"

C2_OneSettlingCallback ==
    \A t \in Transfers :
        Cardinality(Calls(tr[t].log, "success")) + Cardinality(Calls(tr[t].log, "failed")) <= 1

\* C3: right after stop() or cleanup() has returned, controller and blobUrl are
\* null and the handle the session held when it was called is released.
C3_StopClearsSession ==
    lastCall # "none" =>
        /\ controller = Null
        /\ blobUrl = Null
        /\ heldBefore # Null => heldBefore \notin live

C3_Witness ==
    /\ lastCall = "cleanup"
    /\ heldBefore # Null
    /\ \E t \in Transfers : aborted[t] /\ InFlight(tr[t])

\* C4: at most one object URL of the session is live, it is the one in blobUrl,
\* and a transfer that completes releases the held one before creating its own.
C4_OneLiveHandle ==
    /\ Cardinality(live) <= 1
    /\ live \subseteq {blobUrl}
    /\ peakLive <= 1
    /\ \A t \in Transfers : tr[t].released # Null => tr[t].released \notin live

C4_Witness ==
    \E t \in Transfers :
        /\ tr[t].released # Null
        /\ tr[t].created # Null
        /\ live = {tr[t].created}

\* C5: with an advertised length L > 0, progress is called once per chunk, in
\* arrival order, with round(ri / L * 100); the values never decrease, and end
\* with 100 when the body is exactly L bytes.
C5_ProgressValues ==
    \A t \in Transfers :
        LET x == tr[t]
            P == ProgressValues(x.log)
        IN x.contentLength > 0 /\ "progress" \in x.opts =>
              /\ Len(P) <= Len(x.wire)
              /\ x.errored = "" => Len(P) = Len(x.wire) - Len(x.queue)
              /\ \A i \in DOMAIN P : IsRound(P[i], SumTo(x.wire, i), x.contentLength)
              /\ \A i \in DOMAIN P : i > 1 => P[i - 1] <= P[i]
              /\ x.pc = "resolved" /\ x.sent = x.contentLength =>
                    /\ Len(P) = Len(x.wire)
                    /\ P # <<>>
                    /\ P[Len(P)] = 100

C5_Witness ==
    \E t \in Transfers :
        /\ tr[t].pc = "resolved"
        /\ tr[t].contentLength = 3
        /\ tr[t].wire = <<2, 1>>
        /\ ProgressValues(tr[t].log) = <<67, 100>>

\* C6: every value given to the progress callback is an integer from 0 to 100.
C6_PercentInRange ==
    \A t \in Transfers :
        \A i \in Calls(tr[t].log, "progress") : tr[t].log[i].n \in 0..100

\* C7: with no Content-Length header, progress is never called, and the chunks
\* are buffered all the same.
C7_NoLengthNoProgress ==
    \A t \in Transfers :
        tr[t].lengthHeader = Absent /\ tr[t].pc \in {"read", "resolved"} =>
            /\ Calls(tr[t].log, "progress") = {}
            /\ tr[t].pc = "read" /\ tr[t].errored = "" =>
                  /\ Len(tr[t].chunks) = Len(tr[t].wire) - Len(tr[t].queue)
                  /\ tr[t].receivedLength = SumTo(tr[t].wire, Len(tr[t].chunks))

C7_Witness ==
    \E t \in Transfers :
        /\ tr[t].lengthHeader = Absent
        /\ "progress" \in tr[t].opts
        /\ tr[t].pc = "resolved"
        /\ Len(tr[t].wire) >= 2
        /\ tr[t].created # Null
        /\ Len(blobs[tr[t].created].bytes) = tr[t].sent

\* C8: the payload behind a published handle is the body's bytes in arrival
\* order (byte i of a body is i), as long as the chunk lengths add up to.
C8_PayloadIsBody ==
    \A t \in Transfers :
        tr[t].created # Null =>
            LET bytes == blobs[tr[t].created].bytes
            IN /\ Len(bytes) = SumTo(tr[t].wire, Len(tr[t].wire))
               /\ \A i \in DOMAIN bytes : bytes[i] = i

C8_Witness ==
    \E t \in Transfers :
        /\ tr[t].created # Null
        /\ tr[t].pc = "resolved"
        /\ tr[t].wire = <<1, 2>>
        /\ blobs[tr[t].created].bytes = <<1, 2, 3>>

\* C9: failed is given 'ABORTED' exactly when the attempt was cancelled and
\* 'ERROR' otherwise; a non-success status gives failed('ERROR', message with
\* the status), no success and no handle.
C9_FailureKinds ==
    \A t \in Transfers :
        \A i \in Calls(tr[t].log, "failed") :
            LET e == tr[t].log[i]
            IN /\ e.kind \in {"ABORTED", "ERROR"}
               /\ e.kind = "ABORTED" <=> tr[t].cause = "cancel"
               /\ e.kind = "ABORTED" => aborted[t] /\ e.msg = "Download was stopped"
               /\ e.kind = "ERROR" =>
                     tr[t].cause \in {"network", "status", "read", "callback"}
               /\ tr[t].cause = "status" =>
                     /\ e.kind = "ERROR"
                     /\ e.msg = "HTTP error! status: " /\ e.n = 404
                     /\ Calls(tr[t].log, "success") = {}
                     /\ tr[t].created = Null

C9_Witness ==
    \E t \in Transfers :
        /\ tr[t].cause = "status"
        /\ Calls(tr[t].log, "failed") # {}
        /\ \E k \in Transfers : tr[k].cause = "cancel" /\ Calls(tr[k].log, "failed") # {}

\* C10: an attempt that ends in failure has created no handle.
C10_FailedCreatesNoHandle ==
    \A t \in Transfers :
        tr[t].pc = "rejected" \/ Calls(tr[t].log, "failed") # {} =>
            /\ tr[t].created = Null
            /\ blobUrl # Null => blobUrl # tr[t].created

\* C11: on every failure path the promise of download() rejects, with or
\* without a failed callback, and a supplied failed callback has been invoked
\* by the time it rejects.
C11_FailureRejects ==
    \A t \in Transfers :
        /\ tr[t].cause # "" => tr[t].pc = "rejected" /\ tr[t].error # ""
        /\ Calls(tr[t].log, "failed") # {} => tr[t].pc = "rejected"
        /\ tr[t].pc = "rejected" =>
              /\ tr[t].cause # ""
              /\ "failed" \in tr[t].opts => Cardinality(Calls(tr[t].log, "failed")) = 1
              /\ "failed" \notin tr[t].opts => Calls(tr[t].log, "failed") = {}

C11_Witness ==
    \E t, k \in Transfers :
        /\ tr[t].pc = "rejected" /\ "failed" \notin tr[t].opts /\ tr[t].cause = "network"
        /\ tr[k].pc = "rejected" /\ "failed" \in tr[k].opts /\ tr[k].cause = "cancel"

\* C12 as stated: String.prototype.download returns the session before the
\* transfer has settled, and the handler that swallows a failure leaves the
\* session with controller and blobUrl null.
C12_ReturnsBeforeSettling ==
    [][/\ (tr[1].pc = "new" /\ tr'[1].conv) => ~Settled(tr'[1])
       /\ \A t \in Transfers :
             tr[t].handled = "" /\ tr'[t].handled # "" =>
                 /\ tr'[t].handled = "swallowed"
                 /\ controller' = Null /\ blobUrl' = Null /\ live' = {}]_vars

\* C12 amended: the session is returned before the transfer has settled unless
\* the started callback throws (the attempt has then already failed, failed
\* already invoked); every failure is swallowed by a handler that leaves the
\* session with controller and blobUrl null.
C12_SwallowedAfterCleanup ==
    [][/\ (tr[1].pc = "new" /\ tr'[1].conv) =>
             \/ tr'[1].pc = "fetch"
             \/ /\ tr'[1].pc = "rejected" /\ tr'[1].cause = "callback"
                /\ Calls(tr'[1].log, "progress") \cup Calls(tr'[1].log, "success") = {}
       /\ \A t \in Transfers :
             tr[t].handled = "" /\ tr'[t].handled # "" =>
                 /\ tr[t].conv /\ tr[t].pc = "rejected"
                 /\ tr'[t].handled = "swallowed"
                 /\ controller' = Null /\ blobUrl' = Null /\ live' = {}]_vars

C12_Witness ==
    /\ tr[1].conv /\ tr[1].handled = "swallowed" /\ tr[1].cause = "read"
    /\ lastCall = "cleanup"
    /\ heldBefore # Null
    /\ controller = Null /\ blobUrl = Null

\* C13: stop() or cleanup() called by the page on a session with no transfer in
\* flight and no payload handle changes nothing: controller, isPaused and
\* blobUrl, every token, every handle and every transfer (no callback invoked)
\* are as before.
C13_IdleStopIsNoOp ==
    [][(/\ lastCall' \in {"stop", "cleanup"}
        /\ blobUrl = Null
        /\ \A t \in Transfers : ~InFlight(tr[t]) /\ tr'[t].pc = tr[t].pc)
       => /\ controller' = controller
          /\ isPaused' = isPaused
          /\ blobUrl' = blobUrl
          /\ aborted' = aborted
          /\ live' = live
          /\ tr' = tr]_vars

\* C14: whenever no transfer is in flight on the session, controller is null.
C14_TokenOnlyWhileActive ==
    (\A t \in Transfers : ~InFlight(tr[t])) => controller = Null

C16_LaterDownloadOrphansEarlier ==
    /\ [][\A k, t \in Transfers :
             k < t /\ tr'[t].pc # "new" => aborted'[k] = aborted[k]]_vars
    /\ [][\A t \in Transfers :
             tr[t].pc = "new" /\ tr'[t].pc # "new" => controller' \in {t, Null}]_vars
    /\ [][\A k \in Transfers :
             aborted'[k] # aborted[k] =>
                 /\ aborted'[k]
                 /\ controller = k \/ tr[k].pc = "new"
                 /\ controller' = Null]_vars
    /\ [](\A k \in Transfers : tr[k].errored = "AbortError" => aborted[k])

\* stop() has returned with both transfers in flight; the earlier one, never
\* cancelled, has then completed: success invoked, its handle published
C16_Witness ==
    /\ tr[1].stopAt >= 0 /\ ~tr[1].stopOwn /\ ~aborted[1]
    /\ tr[1].pc = "resolved" /\ Calls(tr[1].log, "success") # {}
    /\ Calls(tr[1].log, "failed") = {}
    /\ blobUrl = tr[1].created /\ blobUrl \in live
    /\ aborted[2] /\ tr[2].stopOwn /\ tr[2].cause = "cancel"

\* C17: a transfer that has resolved yields the handle it passed to its success
\* callback (the handle it created), and that handle is the session's blobUrl
\* and live when the result is produced.
C17_ResultIsLiveHandle ==
    [][\A t \in Transfers :
          tr[t].pc # "resolved" /\ tr'[t].pc = "resolved" =>
              /\ tr'[t].result = tr'[t].created
              /\ tr'[t].result = blobUrl'
              /\ tr'[t].result \in live']_vars

\* C18: in the callback record of every attempt, started (if supplied) is the
\* first entry of a started attempt and occurs nowhere else, and an entry for
\* success or failed is the last one: nothing of that attempt is invoked after it.
C18_CallbackOrder ==
    \A t \in Transfers :
        LET log == tr[t].log
        IN /\ \A i \in Calls(log, "started") : i = 1
           /\ "started" \in tr[t].opts /\ tr[t].pc # "new" =>
                 log # <<>> /\ log[1].cb = "started"
           /\ \A i \in Calls(log, "success") \cup Calls(log, "failed") : i = Len(log)

\* C19: a handle leaves the live set only in a step in which
\* stop() or cleanup() was called or a transfer resolved; the step that starts a
\* transfer and the step in which a transfer fails, without a stop() or
\* cleanup() call in it, leave live and blobUrl as they were.
C19_HandleReleasedOnlyBy ==
    [][/\ live \ live' # {} =>
             \/ lastCall' \in {"stop", "cleanup"}
             \/ \E t \in Transfers : tr[t].pc # "resolved" /\ tr'[t].pc = "resolved"
       /\ \A t \in Transfers :
             /\ lastCall' = "none"
             /\ \/ tr[t].pc = "new" /\ tr'[t].pc # "new"
                \/ tr[t].pc # "rejected" /\ tr'[t].pc = "rejected"
             => live' = live /\ blobUrl' = blobUrl]_vars

\* C20 as stated: a transfer in flight, its stream not completed, when stop() is
\* called does not stay unsettled for ever: it settles as a failure caused by
\* the cancellation (or by a callback of its own that throws). A transfer that
\* has a continuation ready to run counts as still on its way.
C20_StopAlwaysSettles ==
    \A t \in Transfers :
        (tr[t].stopAt >= 0) ~>
            \/ tr[t].pc = "rejected" /\ tr[t].cause \in {"cancel", "callback"}
            \/ Ready(tr[t], t)

\* C20 amended: a stop() called while the session's controller is still the
\* transfer's own token and its request is pending or its body still readable
\* makes the transfer settle as a failure, with no continuation of the read loop
\* needed for it; the failure is of kind 'ABORTED' unless a callback of the
\* attempt threw.
C20_OwnStopSettles ==
    /\ \A t \in Transfers :
          tr[t].stopOwn ~>
              (tr[t].pc = "rejected" /\ tr[t].cause \in {"cancel", "callback"})
    /\ [](\A t \in Transfers :
            tr[t].stopOwn /\ tr[t].cause = "cancel" =>
                \A i \in Calls(tr[t].log, "failed") : tr[t].log[i].kind = "ABORTED")

\* one transfer cancelled during its body and settled; another, never cancelled,
\* stalled with nothing to read and nothing that would end it
C20_Witness ==
    \E t, k \in Transfers :
        /\ tr[t].stopOwn /\ tr[t].pc = "rejected" /\ tr[t].cause = "cancel"
        /\ tr[t].receivedLength > 0
        /\ tr[k].pc = "read" /\ tr[k].stopAt = -1
        /\ tr[k].queue = <<>> /\ ~tr[k].closeReq /\ tr[k].errored = ""

====
